---- MODULE Spec2Model ----
(***************************************************************************)
(* Rittenregistratie (src/ritten_app.py): the pay calculation              *)
(* calculate_payment, the rate lookup get_tarief_for_date and the three    *)
(* Streamlit forms that write the "Ritten" and "Tarieven" worksheets.      *)
(*                                                                         *)
(* Units.  A datetime is the number of minutes since 00:00 of strptime's   *)
(* reference day, an hour quantity before rounding is a number of minutes  *)
(* (x hours = 60x minutes, exact for HH:MM inputs), an hour quantity       *)
(* rounded to 2 decimals is a number of hundredths of an hour, money is a  *)
(* number of cents.  Text (a text_input value, a worksheet cell) is a      *)
(* sequence of one-character strings.                                      *)
(***************************************************************************)
EXTENDS Integers, Sequences, FiniteSets, TLC

VARIABLES
    ritten,     \* rows of worksheet "Ritten" below the header row
    tarieven,   \* rows of worksheet "Tarieven" below the header row
    last,       \* what the last form submission did (its st.error / st.success)
    args,       \* arguments of the calculate_payment call under study
    pc,         \* position of that call: "call", "done", or "app" (no call)
    locals,     \* calculate_payment's local variables when it returned
    ret         \* calculate_payment's return value

vars == <<ritten, tarieven, last, args, pc, locals, ret>>

----------------------------------------------------------------------------
(* Bounds of the model *)

\* number of minute values tried for each hour of the day
NumMinutes == 4
\* number of distinct calendar dates the date inputs offer
MaxDate == 2
\* largest number of ride rows in worksheet "Ritten"
MaxRitten == 2

----------------------------------------------------------------------------
(* Text *)

Digits == <<"0", "1", "2", "3", "4", "5", "6", "7", "8", "9">>

IsDigit(c) == \E i \in 1..10 : Digits[i] = c

DigitVal(c) == (CHOOSE i \in 1..10 : Digits[i] = c) - 1

\* value of a non-empty all-digit text
RECURSIVE NumVal(_)
NumVal(t) ==
    IF Len(t) = 0 THEN 0
    ELSE 10 * NumVal(SubSeq(t, 1, Len(t) - 1)) + DigitVal(t[Len(t)])

AllDigits(t) == Len(t) > 0 /\ \A i \in 1..Len(t) : IsDigit(t[i])

\* n printed with two digits (%H, %M, %m, %d)
TwoDigits(n) == <<Digits[(n \div 10) + 1], Digits[(n % 10) + 1]>>

Max(a, b) == IF a >= b THEN a ELSE b

Min(a, b) == IF a <= b THEN a ELSE b

\* the failure value of a parse (ValueError / NaT)
Invalid == -1

MinutesPerHour == 60

HoursPerDay == 24

MinutesPerDay == HoursPerDay * MinutesPerHour

\* datetime.strptime(text, "%H:%M"): one or two hour digits (0..23), a colon,
\* one or two minute digits (0..59), nothing else; minutes since 00:00 of
\* the reference day, or Invalid where strptime raises ValueError
strptime(text) ==
    IF \E p \in 2..3 :
          /\ p < Len(text)
          /\ Len(text) - p <= 2
          /\ text[p] = ":"
          /\ AllDigits(SubSeq(text, 1, p - 1))
          /\ AllDigits(SubSeq(text, p + 1, Len(text)))
          /\ NumVal(SubSeq(text, 1, p - 1)) < HoursPerDay
          /\ NumVal(SubSeq(text, p + 1, Len(text))) < MinutesPerHour
    THEN LET p == CHOOSE q \in 2..3 : q < Len(text) /\ text[q] = ":"
         IN  NumVal(SubSeq(text, 1, p - 1)) * MinutesPerHour
               + NumVal(SubSeq(text, p + 1, Len(text)))
    ELSE Invalid

\* round(x, 2) of x = num / den (den > 0, num >= 0 or < 0), in hundredths:
\* the nearest hundredth, an exact tie going to the even one
Round2(num, den) ==
    LET n == 100 * num
        q == n \div den
        r == n % den
    IN  IF 2 * r > den THEN q + 1
        ELSE IF 2 * r < den THEN q
        ELSE IF q % 2 = 0 THEN q ELSE q + 1

----------------------------------------------------------------------------
(* calculate_payment *)

\* the length of a shift paid at the day or night rate, in hours
SurplusThresholdHours == 8

\* mutant: the end is advanced also when end = start
AdjustEnd_Leq(start, end) == IF end <= start THEN end + MinutesPerDay ELSE end

\* end += timedelta(days=1) when end < start
AdjustEnd(start, end) == IF end < start THEN end + MinutesPerDay ELSE end

\* mutant: the max(0, ...) is missing
SurplusHours_NoMax(total_hours) ==
    total_hours - SurplusThresholdHours * MinutesPerHour

\* surplus_hours = max(0, total_hours - 8)
SurplusHours(total_hours) ==
    Max(0, total_hours - SurplusThresholdHours * MinutesPerHour)

\* night_start = strptime("22:00")
night_start == strptime(<<"2", "2", ":", "0", "0">>)

\* mutant: 06:00 of the reference day, the timedelta(days=1) is missing
night_end_SameDay == strptime(<<"0", "6", ":", "0", "0">>)

\* night_end = strptime("06:00") + timedelta(days=1)
night_end == strptime(<<"0", "6", ":", "0", "0">>) + MinutesPerDay

\* the if / elif that adds to night_hours (0 before it)
NightWindowHours(start, end, remaining_hours) ==
    IF start < night_start /\ end > night_start
    THEN Min(end, night_end) - night_start
    ELSE IF start >= night_start \/ end <= night_end
         THEN remaining_hours
         ELSE 0

\* mutant: the night hours are taken off the total, not off the remaining
NormalHours_FromTotal(total_hours, remaining_hours, night_hours) ==
    total_hours - night_hours

\* normal_hours = remaining_hours - night_hours
NormalHours(total_hours, remaining_hours, night_hours) ==
    remaining_hours - night_hours

\* the hour breakdown of a shift with parsed start and end
Breakdown(start0, end0) ==
    LET start == start0
        end == AdjustEnd(start0, end0)
        total_hours == end - start
        surplus_hours == SurplusHours(total_hours)
        remaining_hours == total_hours - surplus_hours
        night_raw == NightWindowHours(start, end, remaining_hours)
        night_hours == Max(0, Min(night_raw, remaining_hours))
        normal_hours == NormalHours(total_hours, remaining_hours, night_hours)
    IN  [start |-> start, end |-> end, total_hours |-> total_hours,
         surplus_hours |-> surplus_hours, remaining_hours |-> remaining_hours,
         night_hours |-> night_hours, normal_hours |-> normal_hours]

\* float(str(v).replace(",", ".")) of a rate cell, in cents: digits, at most
\* one separator, digits; Invalid where float raises ValueError
ParseRate(cell) ==
    LET text == [i \in 1..Len(cell) |-> IF cell[i] = "," THEN "." ELSE cell[i]]
        dots == {i \in 1..Len(text) : text[i] = "."}
    IN  IF dots = {}
        THEN IF AllDigits(text) THEN 100 * NumVal(text) ELSE Invalid
        ELSE IF Cardinality(dots) > 1 THEN Invalid
        ELSE LET p == CHOOSE i \in dots : TRUE
                 whole == SubSeq(text, 1, p - 1)
                 frac == SubSeq(text, p + 1, Len(text))
             IN  IF /\ Len(whole) + Len(frac) > 0
                    /\ \A i \in 1..Len(text) : i = p \/ IsDigit(text[i])
                    /\ Len(frac) <= 2
                 THEN 100 * NumVal(whole)
                        + (IF Len(frac) = 1 THEN 10 * NumVal(frac) ELSE NumVal(frac))
                 ELSE Invalid

RateKeys == {"day_rate", "night_rate", "surplus_rate", "km_rate"}

\* the value returned on an exception (st.error, return None)
None == [ok |-> FALSE]

\* calculate_payment(start_time, end_time, total_km, tarief): the returned
\* dict, or None.  total_km is in whole kilometres, tarief a row of "Tarieven"
calculate_payment(start_time, end_time, total_km, tarief) ==
    LET start == strptime(start_time)
        end == strptime(end_time)
    IN  IF start = Invalid \/ end = Invalid THEN None
        ELSE IF \E k \in RateKeys : ParseRate(tarief[k]) = Invalid THEN None
        ELSE
          LET b == Breakdown(start, end)
              payment60 ==
                  b.normal_hours * ParseRate(tarief.day_rate)
                  + b.night_hours * ParseRate(tarief.night_rate)
                  + b.surplus_hours * ParseRate(tarief.surplus_rate)
                  + total_km * ParseRate(tarief.km_rate) * MinutesPerHour
          IN  [ok |-> TRUE,
               NormaleUren |-> Round2(b.normal_hours, MinutesPerHour),
               Nachturen |-> Round2(b.night_hours, MinutesPerHour),
               SurplusUren |-> Round2(b.surplus_hours, MinutesPerHour),
               TotaleUren |-> Round2(b.total_hours, MinutesPerHour),
               Totaal |-> Round2(payment60, 100 * MinutesPerHour)]

----------------------------------------------------------------------------
(* Inputs *)

MinuteAt(i) ==
    CASE i = 1 -> 0
      [] i = 2 -> 1
      [] i = 3 -> 20
      [] i = 4 -> 59
      [] OTHER -> (7 * i) % MinutesPerHour

Minutes == {MinuteAt(i) : i \in 1..NumMinutes}

\* "HH:MM"
TimeText(h, m) == TwoDigits(h) \o <<":">> \o TwoDigits(m)

\* texts a user can type that are no HH:MM time, and "9:5", which strptime reads
OtherTexts ==
    { <<>>,
      <<"9", "u">>,
      <<"2", "4", ":", "0", "0">>,
      <<"1", "2", ":", "6", "0">>,
      <<"0", "9", ":", "0", "0", " ">>,
      <<"9", ":", "5">> }

TimeInputs ==
    {TimeText(h, m) : h \in 0..(HoursPerDay - 1), m \in Minutes} \cup OtherTexts

\* the defaults of the "nieuw_tarief" form: 14.45, 15.57, 19.52, 0.29
DefaultRates == [day_rate |-> 1445, night_rate |-> 1557,
                 surplus_rate |-> 1952, km_rate |-> 29]

\* the decimal separator the worksheet shows numbers with
SheetDecimalSep == ","

\* a number of cents as the worksheet's cell text
CellText(cents) ==
    (IF cents \div 100 >= 10 THEN TwoDigits(cents \div 100)
                             ELSE <<Digits[(cents \div 100) + 1]>>)
      \o <<SheetDecimalSep>> \o TwoDigits(cents % 100)

\* date.strftime("%Y-%m-%d") of a date <<year, month, day>>
strftime(d) ==
    TwoDigits(d[1] \div 100) \o TwoDigits(d[1] % 100) \o <<"-">>
      \o TwoDigits(d[2]) \o <<"-">> \o TwoDigits(d[3])

\* pd.to_datetime of a date: days on a scale that keeps the calendar order
Ordinal(d) == (d[1] * 12 + d[2]) * 31 + d[3]

\* pd.to_datetime(cell, errors="coerce") of a "YYYY-MM-DD" cell; Invalid is NaT
to_datetime(cell) ==
    IF /\ Len(cell) = 10
       /\ cell[5] = "-" /\ cell[8] = "-"
       /\ AllDigits(SubSeq(cell, 1, 4))
       /\ AllDigits(SubSeq(cell, 6, 7))
       /\ AllDigits(SubSeq(cell, 9, 10))
       /\ NumVal(SubSeq(cell, 6, 7)) \in 1..12
       /\ NumVal(SubSeq(cell, 9, 10)) \in 1..31
    THEN Ordinal(<<NumVal(SubSeq(cell, 1, 4)), NumVal(SubSeq(cell, 6, 7)),
                   NumVal(SubSeq(cell, 9, 10))>>)
    ELSE Invalid

\* a row of "Tarieven" as the form writes it and get_all_values reads it
TariefRow(vanaf, rates) ==
    [Vanaf |-> strftime(vanaf),
     day_rate |-> CellText(rates.day_rate),
     night_rate |-> CellText(rates.night_rate),
     surplus_rate |-> CellText(rates.surplus_rate),
     km_rate |-> CellText(rates.km_rate)]

\* the year of the dates tried
FirstYear == 2024

\* the dates a date_input is set to: the first day of a month of 2024
Dates == {<<FirstYear, m, 1>> : m \in 1..MaxDate}

NoCall == [start_time |-> <<>>, end_time |-> <<>>, total_km |-> 0,
           tarief |-> TariefRow(<<FirstYear, 1, 1>>, DefaultRates)]

NoLocals == [start |-> 0, end |-> 0, total_hours |-> 0, surplus_hours |-> 0,
             remaining_hours |-> 0, night_hours |-> 0, normal_hours |-> 0]

Idle == [op |-> "none", outcome |-> "none"]

----------------------------------------------------------------------------
(* One call of calculate_payment *)

InitCalc ==
    /\ ritten = <<>>
    /\ tarieven = <<>>
    /\ last = Idle
    /\ pc = "call"
    /\ args \in [start_time : TimeInputs, end_time : TimeInputs,
                 total_km : {0, 50},
                 tarief : {TariefRow(<<FirstYear, 1, 1>>, DefaultRates)}]
    /\ locals = NoLocals
    /\ ret = None

Calculate ==
    /\ pc = "call"
    /\ pc' = "done"
    /\ ret' = calculate_payment(args.start_time, args.end_time,
                                args.total_km, args.tarief)
    /\ locals' = IF strptime(args.start_time) = Invalid
                      \/ strptime(args.end_time) = Invalid
                 THEN NoLocals
                 ELSE Breakdown(strptime(args.start_time), strptime(args.end_time))
    /\ UNCHANGED <<ritten, tarieven, last, args>>

NextCalc == Calculate

SpecCalc == InitCalc /\ [][NextCalc]_vars

----------------------------------------------------------------------------
(* The worksheets and the forms *)

\* clients typed in the "Klant" text_input.  One client is enough for two
\* rides to share a label; an empty field is tried with the time inputs
Klanten == {"a"}

\* texts typed in the "Starttijd (HH:MM)" text_input
StarttijdInputs == {<<>>, <<"9", "u">>, TimeText(9, 0)}

\* texts typed in the "Eindtijd (HH:MM)" text_input
EindtijdInputs == {<<>>, <<"9", "u">>, TimeText(17, 0)}

\* the "Gefactureerd?" checkbox, left unticked: the column is copied to the
\* row and read by no handler
GefactureerdInputs == {FALSE}

\* the "Kilometers" number_input of "edit_rit_form" (no min_value)
KmInputs == {-5, 50}

\* the "Kilometers" number_input of "toevoeg_rit" has min_value=0.0
KmInputsAdd == {k \in KmInputs : k >= 0}

\* rates typed in the "nieuw_tarief" form: its defaults and one other set
RateInputs ==
    {DefaultRates,
     [day_rate |-> 1500, night_rate |-> 1650, surplus_rate |-> 2000, km_rate |-> 30],
     [day_rate |-> 1400, night_rate |-> 1500, surplus_rate |-> 1900, km_rate |-> 25]}

\* get_tarief_for_date(datum) on the rows load_tarieven() reads; rows is not
\* empty (iloc[0] of an empty frame raises IndexError)
get_tarief_for_date(rows, datum) ==
    LET geldig == {i \in 1..Len(rows) :
                      /\ to_datetime(rows[i].Vanaf) # Invalid
                      /\ to_datetime(rows[i].Vanaf) <= Ordinal(datum)}
    IN  IF geldig = {} THEN rows[1]
        ELSE rows[CHOOSE i \in geldig : \A j \in geldig : j <= i]

\* the list nieuwe_rit written to the worksheet
RitRow(datum, klant, starttijd, eindtijd, kilometers, gefactureerd, result) ==
    [Datum |-> strftime(datum),
     Klant |-> klant,
     Starttijd |-> starttijd,
     Eindtijd |-> eindtijd,
     Kilometers |-> kilometers,
     Gefactureerd |-> IF gefactureerd THEN "Ja" ELSE "Nee",
     NormaleUren |-> result.NormaleUren,
     Nachturen |-> result.Nachturen,
     SurplusUren |-> result.SurplusUren,
     TotaleUren |-> result.TotaleUren,
     Totaal |-> result.Totaal]

\* df["__label__"] = df["Datum"] + " - " + df["Klant"] (the separator is an
\* en dash between two spaces); the client is kept as one element
Label(rit) == rit.Datum \o <<" ", "-", " ">> \o <<rit.Klant>>

\* df[df["__label__"] == selected_label].index[0] + 1, for the option at
\* position picked of the selectbox
SelectedIndex(df, picked) ==
    CHOOSE i \in 1..Len(df) :
        /\ Label(df[i]) = Label(df[picked])
        /\ \A j \in 1..Len(df) : Label(df[j]) = Label(df[picked]) => i <= j

\* sheet_ritten.delete_rows(row)
DeleteRow(rows, i) ==
    [j \in 1..(Len(rows) - 1) |-> IF j < i THEN rows[j] ELSE rows[j + 1]]

\* the value of result where calculate_payment was not reached
NotCalled == [called |-> FALSE]

\* what a ride submission did: the message it showed, the selectbox option
\* and the row index it worked on, and the value of its variable result
Done(op, outcome, picked, index, result) ==
    [op |-> op, outcome |-> outcome, picked |-> picked, index |-> index,
     result |-> result]

\* mutant: a failed calculation is reported and the ride is appended with
\* empty hour and payment columns
toevoeg_rit_AppendOnFailure(datum, klant, starttijd, eindtijd, kilometers, gefactureerd) ==
    IF klant = "" \/ starttijd = <<>> \/ eindtijd = <<>>
    THEN /\ last' = Done("toevoeg_rit", "vul_alle_velden_in", 0, 0, NotCalled)
         /\ UNCHANGED ritten
    ELSE IF tarieven = <<>>
    THEN /\ last' = Done("toevoeg_rit", "exception", 0, 0, NotCalled)
         /\ UNCHANGED ritten
    ELSE LET tarief == get_tarief_for_date(tarieven, datum)
             result == calculate_payment(starttijd, eindtijd, kilometers, tarief)
             empty == [ok |-> FALSE, NormaleUren |-> 0, Nachturen |-> 0,
                       SurplusUren |-> 0, TotaleUren |-> 0, Totaal |-> 0]
         IN  /\ Len(ritten) < MaxRitten
             /\ ritten' = Append(ritten,
                   RitRow(datum, klant, starttijd, eindtijd, kilometers,
                          gefactureerd, IF result = None THEN empty ELSE result))
             /\ last' = Done("toevoeg_rit",
                             IF result = None THEN "ongeldige_tijd"
                                              ELSE "toegevoegd",
                             0, Len(ritten) + 1, result)

\* form "toevoeg_rit", button "Toevoegen"
toevoeg_rit(datum, klant, starttijd, eindtijd, kilometers, gefactureerd) ==
    IF klant = "" \/ starttijd = <<>> \/ eindtijd = <<>>
    THEN /\ last' = Done("toevoeg_rit", "vul_alle_velden_in", 0, 0, NotCalled)
         /\ UNCHANGED ritten
    ELSE IF tarieven = <<>>
    THEN /\ last' = Done("toevoeg_rit", "exception", 0, 0, NotCalled)
         /\ UNCHANGED ritten
    ELSE LET tarief == get_tarief_for_date(tarieven, datum)
             result == calculate_payment(starttijd, eindtijd, kilometers, tarief)
         IN  IF result = None
             THEN /\ last' = Done("toevoeg_rit", "ongeldige_tijd", 0, 0, result)
                  /\ UNCHANGED ritten
             ELSE /\ Len(ritten) < MaxRitten
                  /\ ritten' = Append(ritten,
                        RitRow(datum, klant, starttijd, eindtijd, kilometers,
                               gefactureerd, result))
                  /\ last' = Done("toevoeg_rit", "toegevoegd", 0,
                                  Len(ritten) + 1, result)

\* form "edit_rit_form", button "Opslaan wijziging", the selectbox at option
\* picked
opslaan_wijziging(picked, datum, klant, starttijd, eindtijd, kilometers, gefactureerd) ==
    LET selected_index == SelectedIndex(ritten, picked)
    IN  IF tarieven = <<>>
        THEN /\ last' = Done("opslaan", "exception", picked, selected_index,
                             NotCalled)
             /\ UNCHANGED ritten
        ELSE LET tarief == get_tarief_for_date(tarieven, datum)
                 result == calculate_payment(starttijd, eindtijd, kilometers, tarief)
             IN  IF result = None
                 THEN /\ last' = Done("opslaan", "ongeldige_tijd", picked,
                                      selected_index, result)
                      /\ UNCHANGED ritten
                 ELSE /\ ritten' = [ritten EXCEPT ![selected_index] =
                            RitRow(datum, klant, starttijd, eindtijd, kilometers,
                                   gefactureerd, result)]
                      /\ last' = Done("opslaan", "aangepast", picked,
                                      selected_index, result)

\* form "edit_rit_form", button "Verwijder rit", with the values of the two
\* confirmation checkboxes
verwijder_rit(picked, zeker, echt_zeker) ==
    LET selected_index == SelectedIndex(ritten, picked)
    IN  IF zeker /\ echt_zeker
        THEN /\ ritten' = DeleteRow(ritten, selected_index)
             /\ last' = Done("verwijder", "verwijderd", picked, selected_index,
                             NotCalled)
        ELSE /\ last' = Done("verwijder", "niet_bevestigd", picked,
                             selected_index, NotCalled)
             /\ UNCHANGED ritten

\* mutant: the check for an existing effective date is missing
nieuw_tarief_NoCheck(vanaf, rates) ==
    /\ Len(tarieven) <= MaxDate
    /\ tarieven' = Append(tarieven, TariefRow(vanaf, rates))
    /\ last' = [op |-> "nieuw_tarief", outcome |-> "toegevoegd",
                vanaf |-> vanaf]

\* form "nieuw_tarief", button "Toevoegen tarief"
nieuw_tarief(vanaf, rates) ==
    LET bestaande == {to_datetime(tarieven[i].Vanaf) : i \in 1..Len(tarieven)}
    IN  IF Ordinal(vanaf) \in bestaande
        THEN /\ last' = [op |-> "nieuw_tarief", outcome |-> "bestaat_al",
                         vanaf |-> vanaf]
             /\ UNCHANGED tarieven
        ELSE /\ tarieven' = Append(tarieven, TariefRow(vanaf, rates))
             /\ last' = [op |-> "nieuw_tarief", outcome |-> "toegevoegd",
                         vanaf |-> vanaf]

\* line 128 / 178 of a ride submission: tarief = get_tarief_for_date(datum)
tarief_opvragen(datum) ==
    IF tarieven = <<>>
    THEN /\ last' = [op |-> "get_tarief_for_date", outcome |-> "exception",
                     datum |-> datum]
         /\ UNCHANGED args
    ELSE /\ last' = [op |-> "get_tarief_for_date", outcome |-> "ok",
                     datum |-> datum]
         /\ args' = [args EXCEPT !.tarief = get_tarief_for_date(tarieven, datum)]

ToevoegRit ==
    /\ \E datum \in Dates, klant \in Klanten, starttijd \in StarttijdInputs,
          eindtijd \in EindtijdInputs, kilometers \in KmInputsAdd,
          gefactureerd \in GefactureerdInputs :
            toevoeg_rit(datum, klant, starttijd, eindtijd, kilometers, gefactureerd)
    /\ UNCHANGED <<tarieven, args, pc, locals, ret>>

OpslaanWijziging ==
    /\ ritten # <<>>
    /\ \E picked \in 1..Len(ritten), datum \in Dates, klant \in Klanten,
          starttijd \in StarttijdInputs, eindtijd \in EindtijdInputs,
          kilometers \in KmInputs, gefactureerd \in GefactureerdInputs :
            opslaan_wijziging(picked, datum, klant, starttijd, eindtijd,
                              kilometers, gefactureerd)
    /\ UNCHANGED <<tarieven, args, pc, locals, ret>>

VerwijderRit ==
    /\ ritten # <<>>
    /\ \E picked \in 1..Len(ritten), zeker \in BOOLEAN, echt_zeker \in BOOLEAN :
            verwijder_rit(picked, zeker, echt_zeker)
    /\ UNCHANGED <<tarieven, args, pc, locals, ret>>

NieuwTarief ==
    /\ \E vanaf \in Dates, rates \in RateInputs : nieuw_tarief(vanaf, rates)
    /\ UNCHANGED <<ritten, args, pc, locals, ret>>

TariefOpvragen ==
    /\ \E datum \in Dates : tarief_opvragen(datum)
    /\ UNCHANGED <<ritten, tarieven, pc, locals, ret>>

----------------------------------------------------------------------------
(* Tab "Registratie": the ride forms over a rate sheet that stays as it is *)

\* the rate sheets the ride forms are run against: the header alone, and
\* one rate effective from the first date
RateSheets == {<<>>, <<TariefRow(<<FirstYear, 1, 1>>, DefaultRates)>>}

InitRitten ==
    /\ ritten = <<>>
    /\ tarieven \in RateSheets
    /\ last = Idle
    /\ args = NoCall
    /\ pc = "app"
    /\ locals = NoLocals
    /\ ret = None

NextRitten == ToevoegRit \/ OpslaanWijziging \/ VerwijderRit

SpecRitten == InitRitten /\ [][NextRitten]_vars

----------------------------------------------------------------------------
(* Tab "Tarieven": the rate form, and the rate lookup of a ride submission *)

InitTarieven ==
    /\ ritten = <<>>
    /\ tarieven = <<>>
    /\ last = Idle
    /\ args = NoCall
    /\ pc = "app"
    /\ locals = NoLocals
    /\ ret = None

NextTarieven == NieuwTarief \/ TariefOpvragen

SpecTarieven == InitTarieven /\ [][NextTarieven]_vars

----------------------------------------------------------------------------
(* Properties of calculate_payment, under SpecCalc *)

CallStart == strptime(args.start_time)

CallEnd == strptime(args.end_time)

\* the call returned and both times were read as HH:MM
Returned == pc = "done" /\ CallStart # Invalid /\ CallEnd # Invalid

\* the elapsed duration of the shift, in minutes
Elapsed ==
    IF CallEnd < CallStart THEN CallEnd + MinutesPerDay - CallStart
    ELSE CallEnd - CallStart

\* the end of the shift on the time line of the reference day
EndOnTimeLine == CallStart + Elapsed

At(h, m) == h * MinutesPerHour + m

\* C1: a shift that starts and ends on the same day between 06:00 and 22:00
\* has night_hours = 0 and normal_hours = min(total_hours, 8); 09:00-17:00
\* with 50 km at the default rates returns 8.0 / 0 / 0 / 8.0 / 130.10 and
\* 06:00-18:00 with 0 km returns normal 8.0, night 0, surplus 4.0, 193.68.
C1_DaytimeShiftHasNoNightHours ==
    (/\ Returned
     /\ At(6, 0) <= CallStart /\ CallStart <= CallEnd /\ CallEnd <= At(22, 0))
    =>
    /\ ret # None
    /\ locals.night_hours = 0
    /\ locals.normal_hours = Min(Elapsed, At(8, 0))
    /\ ret.Nachturen = 0
    /\ ret.NormaleUren = Round2(Min(Elapsed, At(8, 0)), MinutesPerHour)
    /\ (CallStart = At(9, 0) /\ CallEnd = At(17, 0) /\ args.total_km = 50
          => ret = [ok |-> TRUE, NormaleUren |-> 800, Nachturen |-> 0,
                    SurplusUren |-> 0, TotaleUren |-> 800, Totaal |-> 13010])
    /\ (CallStart = At(6, 0) /\ CallEnd = At(18, 0) /\ args.total_km = 0
          => ret = [ok |-> TRUE, NormaleUren |-> 800, Nachturen |-> 0,
                    SurplusUren |-> 400, TotaleUren |-> 1200, Totaal |-> 19368])

C6_NightHoursWithinRemaining ==
    Returned =>
    /\ locals.remaining_hours = Min(Elapsed, At(8, 0))
    /\ 0 <= locals.night_hours
    /\ locals.night_hours <= Min(Elapsed, At(8, 0))
    /\ locals.normal_hours >= 0
    /\ 0 <= ret.Nachturen
    /\ ret.Nachturen <= Round2(Min(Elapsed, At(8, 0)), MinutesPerHour)
    /\ ret.NormaleUren >= 0

\* a night shift shorter than 8 hours: night_hours reaches remaining_hours
C6_Witness ==
    /\ Returned
    /\ 0 < Elapsed /\ Elapsed < At(8, 0)
    /\ locals.night_hours = locals.remaining_hours
    /\ CallStart >= At(22, 0)

\* C7: total_hours is the elapsed duration (end advanced by 24 hours exactly
\* when end < start), surplus_hours = max(0, total_hours - 8),
\* remaining_hours = total_hours - surplus_hours <= 8, and total_hours <= 8
\* gives surplus_hours = 0 and remaining_hours = total_hours.
C7_OvertimeSplit ==
    Returned =>
    /\ locals.end = (IF CallEnd < CallStart THEN CallEnd + MinutesPerDay
                                            ELSE CallEnd)
    /\ locals.total_hours = Elapsed
    /\ locals.surplus_hours = Max(0, Elapsed - At(8, 0))
    /\ locals.remaining_hours = Elapsed - locals.surplus_hours
    /\ locals.remaining_hours <= At(8, 0)
    /\ (Elapsed <= At(8, 0)
          => locals.surplus_hours = 0 /\ locals.remaining_hours = Elapsed)
    /\ ret.TotaleUren = Round2(Elapsed, MinutesPerHour)
    /\ ret.SurplusUren = Round2(Max(0, Elapsed - At(8, 0)), MinutesPerHour)

\* a shift across midnight that is longer than 8 hours
C7_Witness ==
    /\ Returned
    /\ CallEnd < CallStart
    /\ locals.surplus_hours > 0

\* C9: a shift that starts before 22:00 and ends (after the midnight
\* adjustment) after 22:00 has night_hours = min(min(end, 06:00 of the next
\* day) - 22:00, remaining_hours), and the rest of remaining_hours is
\* normal_hours.
C9_EveningShiftNightHours ==
    (Returned /\ CallStart < At(22, 0) /\ EndOnTimeLine > At(22, 0))
    =>
    /\ locals.night_hours =
          Min(Min(EndOnTimeLine, At(6, 0) + MinutesPerDay) - At(22, 0),
              Min(Elapsed, At(8, 0)))
    /\ locals.normal_hours = Min(Elapsed, At(8, 0)) - locals.night_hours
    /\ ret.Nachturen = Round2(locals.night_hours, MinutesPerHour)
    /\ ret.NormaleUren = Round2(locals.normal_hours, MinutesPerHour)

\* a shift from before 22:00 to after 06:00 of the next day: the 06:00 cap
\* applies
C9_Witness ==
    /\ Returned
    /\ CallStart < At(22, 0)
    /\ EndOnTimeLine > At(6, 0) + MinutesPerDay
    /\ locals.night_hours = At(8, 0)

----------------------------------------------------------------------------
(* Properties of the ride forms, under SpecRitten *)

RitOps == {"toevoeg_rit", "opslaan"}

\* C4: calculate_payment fails whenever distance_km < 0, so no create or
\* edit submission persists a ride row computed from a negative distance.
C4_NoNegativeDistancePersisted ==
    /\ \A i \in 1..Len(ritten) : ritten[i].Kilometers >= 0
    /\ (last.op \in RitOps /\ last.outcome \in {"toegevoegd", "aangepast"}
          => ritten[last.index].Kilometers >= 0)

\* C5: a create or edit submission in which calculate_payment returns None
\* shows the error and leaves the ride rows exactly as they were.
C5_FailedCalculationLeavesRitten ==
    [][(last'.op \in RitOps /\ last'.result = None)
          => /\ ritten' = ritten
             /\ last'.outcome = "ongeldige_tijd"]_vars

\* an edit submission with an unreadable time on a sheet that holds a ride
C5_Witness ==
    /\ last.op = "opslaan"
    /\ last.result = None
    /\ last.outcome = "ongeldige_tijd"
    /\ ritten # <<>>

\* C10: saving an edit overwrites exactly the row of the ride selected in
\* the selectbox and deleting removes exactly that row, also when two rides
\* have the same date and client; every other row is left unchanged.
C10_EditAndDeleteActOnSelectedRide ==
    [][/\ (last'.op = "opslaan" /\ last'.outcome = "aangepast"
             => /\ Len(ritten') = Len(ritten)
                /\ \A j \in 1..Len(ritten) :
                      j # last'.picked => ritten'[j] = ritten[j])
       /\ (last'.op = "verwijder" /\ last'.outcome = "verwijderd"
             => ritten' = DeleteRow(ritten, last'.picked))]_vars

----------------------------------------------------------------------------
(* Properties of the rate sheet, under SpecTarieven *)

\* the rows of the sheet that are effective on a date
Geldig(datum) ==
    {i \in 1..Len(tarieven) :
        /\ to_datetime(tarieven[i].Vanaf) # Invalid
        /\ to_datetime(tarieven[i].Vanaf) <= Ordinal(datum)}

\* C2: on a rate sheet built by the rate form (dates submitted in any
\* order), a lookup for a date with at least one rate effective on it
\* returns the rate with the latest effective date among those.
C2_LookupReturnsLatestEffectiveRate ==
    (/\ last.op = "get_tarief_for_date"
     /\ last.outcome = "ok"
     /\ Geldig(last.datum) # {})
    =>
    /\ to_datetime(args.tarief.Vanaf) <= Ordinal(last.datum)
    /\ \A i \in Geldig(last.datum) :
          to_datetime(tarieven[i].Vanaf) <= to_datetime(args.tarief.Vanaf)

\* C8: the rate sheet holds at most one rate per effective date after any
\* sequence of submissions, and a submission with the date of an existing
\* rate appends nothing.
C8_OneRatePerEffectiveDate ==
    [][/\ \A i, j \in 1..Len(tarieven') :
             tarieven'[i].Vanaf = tarieven'[j].Vanaf => i = j
       /\ (/\ last'.op = "nieuw_tarief"
           /\ \E i \in 1..Len(tarieven) :
                 to_datetime(tarieven[i].Vanaf) = Ordinal(last'.vanaf))
          => tarieven' = tarieven]_vars

\* a submission with the date of one of two existing rates
C8_Witness ==
    /\ last.op = "nieuw_tarief"
    /\ last.outcome = "bestaat_al"
    /\ Len(tarieven) >= 2
    /\ \E i \in 1..Len(tarieven) : tarieven[i].Vanaf = strftime(last.vanaf)

====
